---- MODULE Spec2Model ----
(***************************************************************************)
(* A model of the two documentation-maintenance scripts of the repository: *)
(*   - validate_examples.py : DocumentationValidator and its main()        *)
(*   - fix_common_issues.py : the three rewrites, process_file and main()  *)
(*                                                                         *)
(* Texts the code inspects character by character (JSON code blocks, the   *)
(* shell blocks and the prose with their URLs, the documents the fixer     *)
(* rewrites) are sequences of one-character strings.  A Python block is    *)
(* the sequence of its statements.                                         *)
(***************************************************************************)
EXTENDS Integers, Sequences, FiniteSets, TLC

VARIABLES
    files,               \* the *.mdx files of docs_dir, in sorted-path order
    auth_token,          \* DocumentationValidator.auth_token is truthy
    find_spec_result,    \* what importlib.util.find_spec does, per module name
    errors,              \* DocumentationValidator.errors
    warnings,            \* DocumentationValidator.warnings
    validated_examples,  \* DocumentationValidator.validated_examples
    requests_sent,       \* the requests made over the network and their outcomes
    raised,              \* per file: did validate_file raise
    pos,                 \* run_validation: index of the next file of the loop
    pc,                  \* run_validation / main: position
    report,              \* validation_report.md as written (NoReport before)
    success,             \* the value run_validation returned
    exit_code,           \* the status main() passed to sys.exit
    disk,                \* fixer: the content of each *.mdx file on disk
    original,            \* fixer: the content of each file when the fixer first started
    fpos,                \* fixer main(): index of the next file of the loop
    fixed_count,         \* fixer main(): fixed_count
    flog,                \* fixer: one record per process_file call of this run
    fpc,                 \* fixer main(): position
    runs,                \* fixer: runs of main() started
    prev_disk            \* fixer: the disk as the previous run of main() left it

vvars == <<files, auth_token, find_spec_result, errors, warnings,
           validated_examples, requests_sent, raised, pos, pc, report,
           success, exit_code>>
fvars == <<disk, original, fpos, fixed_count, flog, fpc, runs, prev_disk>>
vars == <<vvars, fvars>>

----------------------------------------------------------------------------
(* Generic helpers *)

Range(s) == {s[i] : i \in 1..Len(s)}

SeqsUpTo(S, n) == UNION {[1..k -> S] : k \in 0..n}

\* the least element of a set of integers (TLC tries the elements in order)
Min(S) == CHOOSE x \in S : \A y \in S : x <= y

RECURSIVE Concat(_)
Concat(ss) == IF ss = <<>> THEN <<>> ELSE Head(ss) \o Concat(Tail(ss))

\* lit occurs in s at index i
HasAt(s, i, lit) ==
    /\ i >= 1
    /\ i + Len(lit) - 1 <= Len(s)
    /\ \A k \in 1..Len(lit) : s[i + k - 1] = lit[k]

\* Python's `lit in s` for strings
Contains(s, lit) == \E i \in 1..(Len(s) + 1) : HasAt(s, i, lit)

\* index of the first occurrence of lit in s at or after i, 0 if none
Find(s, lit, i) ==
    LET hits == {j \in i..(Len(s) + 1) : HasAt(s, j, lit)}
    IN  IF hits = {} THEN 0 ELSE Min(hits)

\* first index at or after i that holds no character of set S
SkipWhile(s, i, S) ==
    Min({j \in i..(Len(s) + 1) : j > Len(s) \/ s[j] \notin S})

\* last index at or before i that holds no character of set S, 0 if none
RECURSIVE LastOutside(_, _, _)
LastOutside(s, i, S) ==
    IF i < 1 THEN 0
    ELSE IF s[i] \notin S THEN i
    ELSE LastOutside(s, i - 1, S)

\* s[a..b], empty when a > b
Slice(s, a, b) == IF a > b THEN <<>> ELSE SubSeq(s, a, b)

Whitespace == {" ", "\n", "\t", "\r"}

\* str.strip()
Strip(s) == Slice(s, SkipWhile(s, 1, Whitespace), LastOutside(s, Len(s), Whitespace))

\* str.split('\n')
RECURSIVE SplitLines(_)
SplitLines(s) ==
    LET nl == Find(s, <<"\n">>, 1)
    IN  IF nl = 0 THEN <<s>>
        ELSE <<Slice(s, 1, nl - 1)>> \o SplitLines(Slice(s, nl + 1, Len(s)))

\* '\n'.join(lines)
RECURSIVE JoinLines(_)
JoinLines(ls) ==
    IF ls = <<>> THEN <<>>
    ELSE IF Len(ls) = 1 THEN ls[1]
    ELSE ls[1] \o <<"\n">> \o JoinLines(Tail(ls))

----------------------------------------------------------------------------
(* Error and warning entries.  The code appends formatted strings; an entry *)
(* keeps the file it names, which message it is, and the message's detail.  *)

Entry(file, kind, detail) == [file |-> file, kind |-> kind, detail |-> detail]

\* The accumulator threaded through the checks of one validate_file call:
\* the two lists of the validator, the network requests made so far, and
\* whether an exception is propagating out of validate_file.
AddError(acc, e) == [acc EXCEPT !.errors = Append(@, e)]
AddWarning(acc, w) == [acc EXCEPT !.warnings = Append(@, w)]
AddRequest(acc, url) == [acc EXCEPT !.requests = Append(@, url)]
Raise(acc, exc) == [acc EXCEPT !.raised = exc]

NoException == "none"

----------------------------------------------------------------------------
(* A document is the sequence of its parts [fence, tag, body]: prose        *)
(* (fence = FALSE) and fenced regions (fence = TRUE; tag "" is a fence with *)
(* no language tag).                                                        *)

ShellLanguages == {"bash", "shell", "curl"}

\* match.group(2).strip(): a JSON (or untagged) body is text; a Python body is
\* its statements and a shell body its lines, both as they are after strip()
\* (an all-blank body is the empty sequence in every representation).
StripBody(fence) ==
    IF fence.tag = "python" \/ fence.tag \in ShellLanguages
    THEN fence.body
    ELSE Strip(fence.body)

\* extract_code_blocks: language defaults to 'text', empty bodies are dropped
RECURSIVE extract_code_blocks(_)
extract_code_blocks(content) ==
    IF content = <<>> THEN <<>>
    ELSE LET part == Head(content)
             language == IF part.tag = "" THEN "text" ELSE part.tag
             code == StripBody(part)
         IN  (IF part.fence /\ code # <<>>
              THEN <<[language |-> language, code |-> code]>>
              ELSE <<>>)
             \o extract_code_blocks(Tail(content))

----------------------------------------------------------------------------
(* Python blocks: a statement is [stmt, names].                             *)
(*   "import" : `import a, b.c`      names = the aliases' dotted names      *)
(*   "from"   : `from a.b import x`  names = <<a.b>>, or <<>> when relative *)
(*   "code"   : any other statement that parses                             *)
(*   "bad"    : a line that is no Python                                    *)
(*   "nul"    : a line holding a null byte                                  *)
(*   "shell"  : a line clean_python_code drops ($ ..., ! ..., curl ...)     *)
(* A dotted name is the sequence of its components.                         *)

\* clean_python_code: the lines it skips
clean_python_code(code) == SelectSeq(code, LAMBDA st : st.stmt # "shell")

\* ast.parse: "ok", or the exception it raises
ast_parse(code) ==
    IF \E i \in 1..Len(code) : code[i].stmt = "nul" THEN "ValueError"
    ELSE IF \E i \in 1..Len(code) : code[i].stmt \in {"bad", "shell"} THEN "SyntaxError"
    ELSE "ok"

\* validate_python_syntax
validate_python_syntax(acc, code, filename) ==
    LET r == ast_parse(clean_python_code(code))
    IN  IF r = "ok" THEN acc
        ELSE IF r = "SyntaxError"
             THEN AddError(acc, Entry(filename, "Python syntax error in code block", <<>>))
             ELSE AddError(acc, Entry(filename, "Error parsing Python code", <<>>))

common_packages ==
    {"requests", "pandas", "numpy", "matplotlib", "seaborn",
     "torch", "torchvision", "sklearn", "json", "os", "sys",
     "time", "datetime", "pathlib", "tempfile", "subprocess",
     "hashlib", "hmac", "base64", "random", "math", "collections",
     "functools", "itertools", "glob", "shutil", "urllib",
     "PIL", "cv2", "boto3", "fastapi", "uvicorn", "flask"}

\* the module names of the model whose first character is an underscore
UnderscoreModules == {"_thread", "__future__"}

\* the exceptions the import check catches around find_spec
FindSpecCaught == {"ImportError", "ModuleNotFoundError", "ValueError"}

\* the imports collected by the ast.walk loop
RECURSIVE CollectImports(_)
CollectImports(code) ==
    IF code = <<>> THEN <<>>
    ELSE (IF Head(code).stmt \in {"import", "from"} THEN Head(code).names ELSE <<>>)
         \o CollectImports(Tail(code))

\* the loop over imports: is this import appended to problematic_imports
IsProblematicImport(imp, lookup) ==
    LET base_package == Head(imp)
    IN  /\ base_package \notin common_packages
        /\ base_package \notin UnderscoreModules
        /\ lookup[base_package] \in FindSpecCaught

\* validate_python_imports
validate_python_imports(acc, code, filename, lookup) ==
    IF ast_parse(clean_python_code(code)) # "ok"
    THEN AddError(acc, Entry(filename, "Error checking imports", <<>>))
    ELSE LET imports == CollectImports(clean_python_code(code))
             problematic_imports ==
                 SelectSeq(imports, LAMBDA imp : IsProblematicImport(imp, lookup))
         IN  IF problematic_imports # <<>>
             THEN AddWarning(acc, Entry(filename, "Potentially unavailable imports",
                                        problematic_imports))
             ELSE acc

----------------------------------------------------------------------------
(* json.loads, as its scanner and decoder read a text.  Each Parse operator *)
(* takes the text and the index to read at and returns the index after what *)
(* it read, or 0 where the decoder raises JSONDecodeError.                  *)

JsonWhitespace == {" ", "\t", "\n", "\r"}
Digits == {"0", "1", "2", "3", "4", "5", "6", "7", "8", "9"}
HexDigits == Digits \cup {"a", "b", "c", "d", "e", "f", "A", "B", "C", "D", "E", "F"}
SimpleEscapes == {"\"", "\\", "/", "b", "f", "n", "r", "t"}
ControlChars == {"\n", "\t", "\r"}
JsonLiterals ==
    << <<"n", "u", "l", "l">>, <<"t", "r", "u", "e">>, <<"f", "a", "l", "s", "e">>,
       <<"N", "a", "N">>, <<"I", "n", "f", "i", "n", "i", "t", "y">>,
       <<"-", "I", "n", "f", "i", "n", "i", "t", "y">> >>

SkipWs(s, i) == SkipWhile(s, i, JsonWhitespace)

\* NUMBER_RE: -?(0|[1-9]\d*)(\.\d+)?([eE][-+]?\d+)?
ParseNumber(s, i) ==
    LET d == IF i <= Len(s) /\ s[i] = "-" THEN i + 1 ELSE i
    IN  IF d > Len(s) \/ s[d] \notin Digits THEN 0
        ELSE LET int_end == IF s[d] = "0" THEN d + 1 ELSE SkipWhile(s, d, Digits)
                 frac_end ==
                     IF /\ int_end + 1 <= Len(s)
                        /\ s[int_end] = "."
                        /\ s[int_end + 1] \in Digits
                     THEN SkipWhile(s, int_end + 1, Digits)
                     ELSE int_end
                 sign == IF frac_end + 1 <= Len(s) /\ s[frac_end + 1] \in {"+", "-"}
                         THEN frac_end + 2 ELSE frac_end + 1
             IN  IF /\ frac_end <= Len(s)
                    /\ s[frac_end] \in {"e", "E"}
                    /\ sign <= Len(s)
                    /\ s[sign] \in Digits
                 THEN SkipWhile(s, sign, Digits)
                 ELSE frac_end

\* py_scanstring (strict): i is the index after the opening quote
RECURSIVE ParseString(_, _)
ParseString(s, i) ==
    IF i > Len(s) THEN 0
    ELSE IF s[i] = "\"" THEN i + 1
    ELSE IF s[i] \in ControlChars THEN 0
    ELSE IF s[i] = "\\"
         THEN IF i + 1 > Len(s) THEN 0
              ELSE IF s[i + 1] \in SimpleEscapes THEN ParseString(s, i + 2)
              ELSE IF /\ s[i + 1] = "u"
                      /\ i + 5 <= Len(s)
                      /\ \A k \in (i + 2)..(i + 5) : s[k] \in HexDigits
                   THEN ParseString(s, i + 6)
              ELSE 0
    ELSE ParseString(s, i + 1)

RECURSIVE ParseValue(_, _)
RECURSIVE ParseMembers(_, _)
RECURSIVE ParseElements(_, _)

\* JSONObject after the opening brace: the "key": value pairs up to the closing brace
ParseMembers(s, i) ==
    IF i > Len(s) \/ s[i] # "\"" THEN 0
    ELSE LET key_end == ParseString(s, i + 1)
             colon == IF key_end = 0 THEN 0 ELSE SkipWs(s, key_end)
         IN  IF key_end = 0 \/ colon > Len(s) \/ s[colon] # ":" THEN 0
             ELSE LET value_end == ParseValue(s, SkipWs(s, colon + 1))
                      nxt == IF value_end = 0 THEN 0 ELSE SkipWs(s, value_end)
                  IN  IF value_end = 0 \/ nxt > Len(s) THEN 0
                      ELSE IF s[nxt] = "}" THEN nxt + 1
                      ELSE IF s[nxt] = "," THEN ParseMembers(s, SkipWs(s, nxt + 1))
                      ELSE 0

\* JSONArray after the opening bracket: the values up to the closing bracket
ParseElements(s, i) ==
    LET value_end == ParseValue(s, i)
        nxt == IF value_end = 0 THEN 0 ELSE SkipWs(s, value_end)
    IN  IF value_end = 0 \/ nxt > Len(s) THEN 0
        ELSE IF s[nxt] = "]" THEN nxt + 1
        ELSE IF s[nxt] = "," THEN ParseElements(s, SkipWs(s, nxt + 1))
        ELSE 0

\* scan_once
ParseValue(s, i) ==
    IF i > Len(s) THEN 0
    ELSE IF s[i] = "\"" THEN ParseString(s, i + 1)
    ELSE IF s[i] = "{"
         THEN LET j == SkipWs(s, i + 1)
              IN  IF j <= Len(s) /\ s[j] = "}" THEN j + 1 ELSE ParseMembers(s, j)
    ELSE IF s[i] = "["
         THEN LET j == SkipWs(s, i + 1)
              IN  IF j <= Len(s) /\ s[j] = "]" THEN j + 1 ELSE ParseElements(s, j)
    ELSE IF \E k \in 1..Len(JsonLiterals) : HasAt(s, i, JsonLiterals[k])
         THEN i + Len(JsonLiterals[CHOOSE k \in 1..Len(JsonLiterals) :
                                       HasAt(s, i, JsonLiterals[k])])
    ELSE ParseNumber(s, i)

\* json.loads(s) returns (TRUE) or raises JSONDecodeError (FALSE)
json_loads(s) ==
    LET value_end == ParseValue(s, SkipWs(s, 1))
    IN  value_end # 0 /\ SkipWs(s, value_end) > Len(s)

----------------------------------------------------------------------------
(* The JSON validity check *)

\* the elements of s at the indexes not in drop, in order
Without(s, drop) ==
    LET F[i \in 0..Len(s)] ==
            IF i = 0 THEN <<>>
            ELSE IF i \in drop THEN F[i - 1] ELSE Append(F[i - 1], s[i])
    IN  F[Len(s)]

RegexSpace == {" ", "\t", "\n", "\r"}

\* re.sub(r',(\s*[}\]])', r'\1', line): each comma that optional whitespace and
\* a closing brace or bracket follow is removed
StripTrailingCommas(line) ==
    Without(line, {i \in 1..Len(line) :
                      /\ line[i] = ","
                      /\ LET j == SkipWhile(line, i + 1, RegexSpace)
                         IN  j <= Len(line) /\ line[j] \in {"}", "]"}})

\* the body of clean_json_code's loop, for one line
CleanJsonLine(line) ==
    LET cut == Find(line, <<"/", "/">>, 1)
        uncommented == IF cut # 0 THEN Slice(line, 1, cut - 1) ELSE line
    IN  StripTrailingCommas(uncommented)

\* clean_json_code
clean_json_code(json_code) ==
    LET lines == SplitLines(json_code)
    IN  JoinLines([i \in 1..Len(lines) |-> CleanJsonLine(lines[i])])

placeholders ==
    << <<"<", "t", "o", "k", "e", "n", ">">>, <<"<", "T", "O", "K", "E", "N", ">">>,
       <<".", ".", ".">>, <<"y", "o", "u", "r", "-">>, <<"Y", "O", "U", "R", "_">>,
       <<"E", "X", "A", "M", "P", "L", "E">> >>

\* is_template_json
is_template_json(json_code) ==
    \E k \in 1..Len(placeholders) : Contains(json_code, placeholders[k])

\* a variant of the loop body that looks for the placeholders in the cleaned
\* text instead of the original text
ValidateJsonBlockCleaned(acc, block, filename) ==
    IF block.language # "json" THEN acc
    ELSE IF json_loads(clean_json_code(block.code)) THEN acc
    ELSE IF ~is_template_json(clean_json_code(block.code))
         THEN AddError(acc, Entry(filename, "Invalid JSON in code block", <<>>))
         ELSE AddWarning(acc, Entry(filename, "Template JSON with placeholders", <<>>))

\* the body of validate_json_examples' loop, for one block
ValidateJsonBlock(acc, block, filename) ==
    IF block.language # "json" THEN acc
    ELSE IF json_loads(clean_json_code(block.code)) THEN acc
    ELSE IF ~is_template_json(block.code)
         THEN AddError(acc, Entry(filename, "Invalid JSON in code block", <<>>))
         ELSE AddWarning(acc, Entry(filename, "Template JSON with placeholders", <<>>))

RECURSIVE ValidateJsonBlocks(_, _, _)
ValidateJsonBlocks(acc, code_blocks, filename) ==
    IF code_blocks = <<>> THEN acc
    ELSE ValidateJsonBlocks(ValidateJsonBlock(acc, Head(code_blocks), filename),
                            Tail(code_blocks), filename)

\* validate_json_examples: every JSON block of the content
validate_json_examples(acc, content, filename) ==
    ValidateJsonBlocks(acc, extract_code_blocks(content), filename)

----------------------------------------------------------------------------
(* The literal texts the validator looks for, as character sequences *)

Curl ==
    <<"c", "u", "r", "l">>
Dash ==
    <<"-">>
DoubleQuote ==
    <<"\"">>
Backslash ==
    <<"\\">>
ApiDomain ==
    <<"a", "p", "i", ".", "l", "y", "c", "e", "u", "m", ".", "t", "e",
      "c", "h", "n", "o", "l", "o", "g", "y">>
AuthorizationBearer ==
    <<"A", "u", "t", "h", "o", "r", "i", "z", "a", "t", "i", "o", "n",
      ":", " ", "B", "e", "a", "r", "e", "r">>
AuthorizationBearerOpen ==
    <<"A", "u", "t", "h", "o", "r", "i", "z", "a", "t", "i", "o", "n",
      ":", " ", "B", "e", "a", "r", "e", "r", " ", "<">>
ContentTypeJson ==
    <<"C", "o", "n", "t", "e", "n", "t", "-", "T", "y", "p", "e", ":",
      " ", "a", "p", "p", "l", "i", "c", "a", "t", "i", "o", "n", "/",
      "j", "s", "o", "n">>
DashD ==
    <<"-", "d", " ">>
TokenUpper ==
    <<"<", "T", "O", "K", "E", "N", ">">>
TokenLower ==
    <<"<", "t", "o", "k", "e", "n", ">">>
BearerOpen ==
    <<"B", "e", "a", "r", "e", "r", " ", "<">>
AuthorizationColon ==
    <<"A", "u", "t", "h", "o", "r", "i", "z", "a", "t", "i", "o", "n",
      ":">>
BillingCredits ==
    <<"b", "i", "l", "l", "i", "n", "g", "/", "c", "r", "e", "d", "i",
      "t", "s">>
StorageListFiles ==
    <<"s", "t", "o", "r", "a", "g", "e", "/", "l", "i", "s", "t", "-",
      "f", "i", "l", "e", "s">>
ApiBase ==
    <<"h", "t", "t", "p", "s", ":", "/", "/", "a", "p", "i", ".", "l",
      "y", "c", "e", "u", "m", ".", "t", "e", "c", "h", "n", "o", "l",
      "o", "g", "y", "/", "a", "p", "i", "/", "v", "2", "/", "e", "x",
      "t", "e", "r", "n", "a", "l", "/">>
DashboardBase ==
    <<"h", "t", "t", "p", "s", ":", "/", "/", "d", "a", "s", "h", "b",
      "o", "a", "r", "d", ".", "l", "y", "c", "e", "u", "m", ".", "t",
      "e", "c", "h", "n", "o", "l", "o", "g", "y">>
JsonPlaceholder ==
    <<"h", "t", "t", "p", "s", ":", "/", "/", "j", "s", "o", "n", "p",
      "l", "a", "c", "e", "h", "o", "l", "d", "e", "r", ".", "t", "y",
      "p", "i", "c", "o", "d", "e", ".", "c", "o", "m", "/">>
HttpBin ==
    <<"h", "t", "t", "p", "s", ":", "/", "/", "h", "t", "t", "p", "b",
      "i", "n", ".", "o", "r", "g", "/">>

Execution ==
    <<"e", "x", "e", "c", "u", "t", "i", "o", "n", "/">>
Storage ==
    <<"s", "t", "o", "r", "a", "g", "e", "/">>
Billing ==
    <<"b", "i", "l", "l", "i", "n", "g", "/">>
SlashStart ==
    <<"/", "s", "t", "a", "r", "t">>
Python ==
    <<"p", "y", "t", "h", "o", "n">>
Image ==
    <<"i", "m", "a", "g", "e">>
Streaming ==
    <<"s", "t", "r", "e", "a", "m", "i", "n", "g">>
Upload ==
    <<"u", "p", "l", "o", "a", "d">>
Download ==
    <<"d", "o", "w", "n", "l", "o", "a", "d">>
ListFiles ==
    <<"l", "i", "s", "t", "-", "f", "i", "l", "e", "s">>
Credentials ==
    <<"c", "r", "e", "d", "e", "n", "t", "i", "a", "l", "s">>
Delete ==
    <<"d", "e", "l", "e", "t", "e">>
Credits ==
    <<"c", "r", "e", "d", "i", "t", "s">>
Checkout ==
    <<"c", "h", "e", "c", "k", "o", "u", "t">>
History ==
    <<"h", "i", "s", "t", "o", "r", "y">>
Activities ==
    <<"a", "c", "t", "i", "v", "i", "t", "i", "e", "s">>
Users ==
    <<"u", "s", "e", "r", "s">>
Posts ==
    <<"p", "o", "s", "t", "s">>
Get ==
    <<"g", "e", "t">>
Headers ==
    <<"h", "e", "a", "d", "e", "r", "s">>

----------------------------------------------------------------------------
(* Curl commands *)

\* ' '.join(current_curl)
RECURSIVE JoinSpaces(_)
JoinSpaces(ls) ==
    IF ls = <<>> THEN <<>>
    ELSE IF Len(ls) = 1 THEN ls[1]
    ELSE ls[1] \o <<" ">> \o JoinSpaces(Tail(ls))

\* a variant of the loop in which a line that is no argument is skipped and
\* leaves the command under construction open
RECURSIVE CurlLoopSkipping(_, _, _)
CurlLoopSkipping(lines, i, current_curl) ==
    IF i > Len(lines)
    THEN IF current_curl # <<>> THEN <<JoinSpaces(current_curl)>> ELSE <<>>
    ELSE LET line == Strip(lines[i])
         IN  IF HasAt(line, 1, Curl)
             THEN (IF current_curl # <<>> THEN <<JoinSpaces(current_curl)>> ELSE <<>>)
                  \o CurlLoopSkipping(lines, i + 1, <<line>>)
             ELSE IF /\ current_curl # <<>>
                     /\ \/ HasAt(line, 1, Dash)
                        \/ HasAt(line, 1, DoubleQuote)
                        \/ Contains(line, Backslash)
                  THEN CurlLoopSkipping(lines, i + 1, Append(current_curl, line))
             ELSE CurlLoopSkipping(lines, i + 1, current_curl)

\* the loop over the lines of one shell block: the commands emitted from
\* lines[i..], current_curl being the lines of the command under construction
RECURSIVE CurlLoop(_, _, _)
CurlLoop(lines, i, current_curl) ==
    IF i > Len(lines)
    THEN IF current_curl # <<>> THEN <<JoinSpaces(current_curl)>> ELSE <<>>
    ELSE LET line == Strip(lines[i])
         IN  IF HasAt(line, 1, Curl)
             THEN (IF current_curl # <<>> THEN <<JoinSpaces(current_curl)>> ELSE <<>>)
                  \o CurlLoop(lines, i + 1, <<line>>)
             ELSE IF /\ current_curl # <<>>
                     /\ \/ HasAt(line, 1, Dash)
                        \/ HasAt(line, 1, DoubleQuote)
                        \/ Contains(line, Backslash)
                  THEN CurlLoop(lines, i + 1, Append(current_curl, line))
             ELSE IF current_curl # <<>>
                  THEN <<JoinSpaces(current_curl)>> \o CurlLoop(lines, i + 1, <<>>)
             ELSE CurlLoop(lines, i + 1, <<>>)

\* extract_curl_commands, over the code blocks of a document
RECURSIVE CurlCommandsOf(_)
CurlCommandsOf(code_blocks) ==
    IF code_blocks = <<>> THEN <<>>
    ELSE (IF Head(code_blocks).language \in ShellLanguages
          THEN CurlLoop(SplitLines(Head(code_blocks).code), 1, <<>>)
          ELSE <<>>)
         \o CurlCommandsOf(Tail(code_blocks))

\* a variant of extract_curl_commands that looks for commands in every part of
\* the document, the prose included
extract_curl_commands_anywhere(content) ==
    CurlCommandsOf([k \in 1..Len(content) |->
                      [language |-> "bash",
                       code |-> IF content[k].tag = "python" THEN <<>>
                                ELSE Strip(content[k].body)]])

extract_curl_commands(content) == CurlCommandsOf(extract_code_blocks(content))

\* a variant of the loop body that asks for a Content-Type header whatever the
\* command's host is
ValidateCurlCommandAnyHost(acc, command, filename) ==
    IF Contains(command, DashD) /\ ~Contains(command, ContentTypeJson)
    THEN AddWarning(acc, Entry(filename,
             "JSON POST request missing Content-Type header", command))
    ELSE acc

\* the body of validate_curl_commands' loop, for one command
ValidateCurlCommand(acc, command, filename) ==
    IF ~HasAt(Strip(command), 1, Curl) THEN acc
    ELSE LET lyceum == Contains(command, ApiDomain)
             a1 == IF /\ lyceum
                      /\ ~Contains(command, AuthorizationBearer)
                      /\ ~Contains(command, AuthorizationBearerOpen)
                   THEN AddWarning(acc, Entry(filename,
                            "Lyceum API call missing Authorization header", command))
                   ELSE acc
             a2 == IF /\ lyceum
                      /\ ~Contains(command, ContentTypeJson)
                      /\ Contains(command, DashD)
                   THEN AddWarning(a1, Entry(filename,
                            "JSON POST request missing Content-Type header", command))
                   ELSE a1
         IN  IF /\ ~Contains(command, TokenUpper)
                /\ ~Contains(command, TokenLower)
                /\ ~Contains(command, BearerOpen)
                /\ lyceum
                /\ Contains(command, AuthorizationColon)
             THEN AddWarning(a2, Entry(filename,
                      "API call might contain real token instead of placeholder", command))
             ELSE a2

\* validate_curl_commands
RECURSIVE validate_curl_commands(_, _, _)
validate_curl_commands(acc, curl_commands, filename) ==
    IF curl_commands = <<>> THEN acc
    ELSE validate_curl_commands(ValidateCurlCommand(acc, Head(curl_commands), filename),
                                Tail(curl_commands), filename)

----------------------------------------------------------------------------
(* URLs of a document *)

\* the characters url_pattern excludes everywhere in a URL (and the backquote,
\* which occurs in a document only in the fence marks between its parts)
UrlStop == {" ", "\n", "\t", "\r", "'", "\"", "<", ">", "{", "}", "|", "\\", "^", "[", "]"}
\* the characters url_pattern also excludes as the last one
UrlNotLast == {".", ",", ";", ":", "!", "?"}
\* the characters the clean-up strips from the end
UrlTrailing == {".", ",", ";", ":", "!", "?", "'", "\"", ">", "]", ")", "}"}

\* start of the URL body when https?:// is at i, else 0
UrlBodyAt(s, i) ==
    IF HasAt(s, i, <<"h", "t", "t", "p", "s", ":", "/", "/">>) THEN i + 8
    ELSE IF HasAt(s, i, <<"h", "t", "t", "p", ":", "/", "/">>) THEN i + 7
    ELSE 0

\* index of the last character of the url_pattern match starting at i, else 0
UrlMatchEnd(s, i) ==
    LET b == UrlBodyAt(s, i)
    IN  IF b = 0 THEN 0
        ELSE LET run_end == SkipWhile(s, b, Range(s) \ UrlStop)
                 last == LastOutside(s, run_end - 1, UrlNotLast)
             IN  IF last >= b + 1 THEN last ELSE 0

\* re.findall(url_pattern, s), scanning from index i
RECURSIVE FindUrls(_, _)
FindUrls(s, i) ==
    LET h == Find(s, <<"h", "t", "t", "p">>, i)
    IN  IF h = 0 THEN <<>>
        ELSE LET e == UrlMatchEnd(s, h)
             IN  IF e = 0 THEN FindUrls(s, h + 1)
                 ELSE <<Slice(s, h, e)>> \o FindUrls(s, e + 1)

\* re.sub(r'[.,;:!?\'">\])}]+$', '', url)
CleanUrl(url) == Slice(url, 1, LastOutside(url, Len(url), UrlTrailing))

\* the text of one part of a document: prose, or the body of a fence; the
\* statements of a Python block stand for text that holds no URL
PartText(part) == IF part.tag = "python" THEN <<>> ELSE part.body

\* re.findall(url_pattern, content): parts are separated by fence marks, which
\* end any URL, so the URLs of the content are those of its parts, in order
RECURSIVE UrlsOf(_)
UrlsOf(doc) ==
    IF doc = <<>> THEN <<>>
    ELSE FindUrls(PartText(Head(doc)), 1) \o UrlsOf(Tail(doc))

----------------------------------------------------------------------------
(* Endpoint checks.  A response is what one network request ends in:        *)
(*   [kind |-> "RequestException"]        timeout, connection failure       *)
(*   [kind |-> "response", status, body]  body: what response.json() gives  *)
(*      "has_field" an object with available_credits, "no_field" an object  *)
(*      without it, "not_json" no JSON at all, "scalar" a JSON null, number *)
(*      or boolean                                                          *)

test_endpoints ==
    <<JsonPlaceholder \o Users, JsonPlaceholder \o Posts, HttpBin \o Get, HttpBin \o Headers>>

lyceum_test_endpoints ==
    <<ApiBase \o Billing \o Credits, ApiBase \o Storage \o ListFiles>>

\* a pattern is [prefix, alts, suffix]: prefix(alt1|alt2|...)suffix
expected_patterns ==
    << [prefix |-> ApiBase \o Execution, alts |-> {Python, Image}, suffix |-> SlashStart],
       [prefix |-> ApiBase \o Storage,
        alts |-> {Upload, Download, ListFiles, Credentials, Delete}, suffix |-> <<>>],
       [prefix |-> ApiBase \o Billing,
        alts |-> {Credits, Checkout, History, Activities}, suffix |-> <<>>],
       [prefix |-> DashboardBase, alts |-> {<<>>}, suffix |-> <<>>] >>

\* re.match(pattern, url): the pattern matches a prefix of the url
ReMatch(pattern, url) ==
    \E alt \in pattern.alts : HasAt(url, 1, pattern.prefix \o alt \o pattern.suffix)

\* a variant of the shape check that asks the whole URL to match a pattern
\* (re.fullmatch) instead of its beginning
validate_lyceum_endpoint_fullmatch(acc, url, filename) ==
    IF \E k \in 1..Len(expected_patterns) :
          \E alt \in expected_patterns[k].alts :
              url = expected_patterns[k].prefix \o alt \o expected_patterns[k].suffix
    THEN acc
    ELSE AddWarning(acc, Entry(filename, "Unrecognized Lyceum endpoint pattern", url))

\* validate_lyceum_endpoint_structure
validate_lyceum_endpoint_structure(acc, url, filename) ==
    IF \E k \in 1..Len(expected_patterns) : ReMatch(expected_patterns[k], url)
    THEN acc
    ELSE AddWarning(acc, Entry(filename, "Unrecognized Lyceum endpoint pattern", url))

\* test_endpoint
test_endpoint(acc, url, filename, resp) ==
    LET sent == AddRequest(acc, [method |-> "GET", url |-> url, response |-> resp])
    IN  IF resp.kind = "RequestException"
        THEN AddWarning(sent, Entry(filename, "Could not reach endpoint", url))
        ELSE IF resp.status >= 400
             THEN AddWarning(sent, Entry(filename, "Endpoint returned status", url))
             ELSE sent

\* test_lyceum_endpoint
test_lyceum_endpoint(acc, url, filename, resp) ==
    LET method == IF Contains(url, BillingCredits) THEN "GET"
                  ELSE IF Contains(url, StorageListFiles) THEN "GET"
                  ELSE "OPTIONS"
        sent == AddRequest(acc, [method |-> method, url |-> url, response |-> resp])
    IN  IF resp.kind = "RequestException"
        THEN AddWarning(sent, Entry(filename, "Could not reach Lyceum endpoint", url))
        ELSE IF resp.status = 401
             THEN AddError(sent, Entry(filename, "Authentication failed", url))
        ELSE IF resp.status = 403
             THEN AddWarning(sent, Entry(filename, "Forbidden access", url))
        ELSE IF resp.status >= 500
             THEN AddWarning(sent, Entry(filename, "Server error", url))
        ELSE IF resp.status >= 400
             THEN AddWarning(sent, Entry(filename, "Client error", url))
        ELSE IF Contains(url, BillingCredits) /\ resp.status = 200
             THEN IF resp.body = "not_json"
                  THEN AddWarning(sent, Entry(filename, "Invalid JSON response", url))
                  ELSE IF resp.body = "scalar"
                       \* 'available_credits' in data, data not a container
                       THEN Raise(sent, "TypeError")
                  ELSE IF resp.body = "has_field" THEN sent
                  ELSE AddWarning(sent, Entry(filename, "Unexpected response format", url))
        ELSE sent

\* the body of validate_api_endpoints' loop, for one URL found
ValidateUrl(acc, found, filename, token, resp) ==
    LET url == CleanUrl(found)
    IN  IF Contains(url, ApiDomain)
        THEN LET a1 == validate_lyceum_endpoint_structure(acc, url, filename)
             IN  IF token /\ url \in Range(lyceum_test_endpoints)
                 THEN test_lyceum_endpoint(a1, url, filename, resp)
                 ELSE a1
        ELSE IF url \in Range(test_endpoints)
             THEN test_endpoint(acc, url, filename, resp)
             ELSE acc

\* validate_api_endpoints over urls[i..]: resps[i] is what the request for the
\* i-th URL found ends in, if one is made; an exception ends the loop
RECURSIVE ValidateUrls(_, _, _, _, _, _)
ValidateUrls(acc, urls, i, filename, token, resps) ==
    IF i > Len(urls) \/ acc.raised # NoException THEN acc
    ELSE ValidateUrls(ValidateUrl(acc, urls[i], filename, token, resps[i]),
                      urls, i + 1, filename, token, resps)

validate_api_endpoints(acc, content, filename, token, resps) ==
    ValidateUrls(acc, UrlsOf(content), 1, filename, token, resps)

----------------------------------------------------------------------------
(* validate_file, generate_report, run_validation, main *)

\* the loop of validate_file over the code blocks
RECURSIVE ValidateBlocks(_, _, _, _, _)
ValidateBlocks(acc, code_blocks, content, filename, lookup) ==
    IF code_blocks = <<>> THEN acc
    ELSE LET block == Head(code_blocks)
             after ==
                 IF block.language = "python"
                 THEN validate_python_imports(
                          validate_python_syntax(acc, block.code, filename),
                          block.code, filename, lookup)
                 ELSE IF block.language = "json"
                      THEN validate_json_examples(acc, content, filename)
                      ELSE acc
         IN  ValidateBlocks(after, Tail(code_blocks), content, filename, lookup)

CountLanguage(code_blocks, language) ==
    Cardinality({i \in 1..Len(code_blocks) : code_blocks[i].language = language})

\* the indexes of the URLs of a document for which a request is made
Probed(content, token) ==
    LET urls == UrlsOf(content)
    IN  {i \in 1..Len(urls) :
            LET url == CleanUrl(urls[i])
            IN  IF Contains(url, ApiDomain)
                THEN token /\ url \in Range(lyceum_test_endpoints)
                ELSE url \in Range(test_endpoints)}

\* validate_file: the accumulator after the call (raised says whether and what
\* it raises) and the results it returns.  open() and read() raise for a file
\* that cannot be read or decoded.
validate_file(acc, file, token, lookup, resps) ==
    IF ~file.readable
    THEN [acc |-> Raise(acc, "OSError"), results |-> <<>>]
    ELSE LET content == file.content
             filename == file.name
             code_blocks == extract_code_blocks(content)
             a1 == ValidateBlocks(acc, code_blocks, content, filename, lookup)
             curl_commands == extract_curl_commands(content)
             a2 == validate_curl_commands(a1, curl_commands, filename)
             a3 == validate_api_endpoints(a2, content, filename, token, resps)
         IN  [acc |-> a3,
              results |-> [file |-> filename,
                           python_blocks |-> CountLanguage(code_blocks, "python"),
                           json_blocks |-> CountLanguage(code_blocks, "json"),
                           curl_commands |-> Len(curl_commands),
                           api_endpoints |-> 0,
                           errors |-> 0,
                           warnings |-> 0]]

NoReport == <<>>

\* generate_report: the lines of the report that depend on the run
generate_report ==
    [files_validated |-> Len(validated_examples),
     total_errors |-> Len(errors),
     total_warnings |-> Len(warnings),
     file_results |-> [i \in 1..Len(validated_examples) |->
                          [file |-> validated_examples[i].file,
                           python_blocks |-> validated_examples[i].python_blocks,
                           json_blocks |-> validated_examples[i].json_blocks,
                           curl_commands |-> validated_examples[i].curl_commands]],
     errors |-> errors,
     warnings |-> warnings,
     all_passed |-> errors = <<>> /\ warnings = <<>>]

\* the responses the network may give
Responses ==
    {[kind |-> "RequestException", status |-> 0, body |-> "none"]}
    \cup {[kind |-> "response", status |-> st, body |-> "none"] :
             st \in {302, 401, 403, 404, 500}}
    \cup {[kind |-> "response", status |-> 200, body |-> b] :
             b \in {"has_field", "no_field", "not_json", "scalar"}}

\* what one call of validate_file on the next file of the loop does
ValidateCall(resps) ==
    validate_file([errors |-> errors, warnings |-> warnings,
                   requests |-> requests_sent, raised |-> NoException],
                  files[pos], auth_token, find_spec_result, resps)

\* run_validation, one turn of the loop: validate_file returns
FileValidated ==
    /\ pc = "loop"
    /\ pos <= Len(files)
    /\ \E resps \in [Probed(files[pos].content, auth_token) -> Responses] :
          \E r \in {ValidateCall(resps)} :
              /\ r.acc.raised = NoException
              /\ errors' = r.acc.errors
              /\ warnings' = r.acc.warnings
              /\ requests_sent' = r.acc.requests
              /\ validated_examples' = Append(validated_examples, r.results)
    /\ raised' = Append(raised, FALSE)
    /\ pos' = pos + 1
    /\ UNCHANGED <<files, auth_token, find_spec_result, pc, report, success, exit_code>>
    /\ UNCHANGED fvars

\* a variant of the loop without its try/except: the exception of validate_file
\* ends the run, the interpreter exits with status 1
FileFailedUncaught ==
    /\ pc = "loop"
    /\ pos <= Len(files)
    /\ \E resps \in [Probed(files[pos].content, auth_token) -> Responses] :
          \E r \in {ValidateCall(resps)} :
              /\ r.acc.raised # NoException
              /\ errors' = r.acc.errors
              /\ warnings' = r.acc.warnings
              /\ requests_sent' = r.acc.requests
    /\ raised' = Append(raised, TRUE)
    /\ exit_code' = 1
    /\ pc' = "exited"
    /\ UNCHANGED <<files, auth_token, find_spec_result, validated_examples, pos, report,
                   success>>
    /\ UNCHANGED fvars

\* run_validation, one turn of the loop: validate_file raises
FileFailed ==
    /\ pc = "loop"
    /\ pos <= Len(files)
    /\ \E resps \in [Probed(files[pos].content, auth_token) -> Responses] :
          \E r \in {ValidateCall(resps)} :
              /\ r.acc.raised # NoException
              /\ errors' = Append(r.acc.errors,
                                  Entry(files[pos].name, "Failed to validate", r.acc.raised))
              /\ warnings' = r.acc.warnings
              /\ requests_sent' = r.acc.requests
    /\ raised' = Append(raised, TRUE)
    /\ pos' = pos + 1
    /\ UNCHANGED <<files, auth_token, find_spec_result, validated_examples, pc, report,
                   success, exit_code>>
    /\ UNCHANGED fvars

\* run_validation after the loop: the report is written, the result returned
FinishRun ==
    /\ pc = "loop"
    /\ pos > Len(files)
    /\ report' = generate_report
    /\ success' = (Len(errors) = 0)
    /\ pc' = "returned"
    /\ UNCHANGED <<files, auth_token, find_spec_result, errors, warnings,
                   validated_examples, requests_sent, raised, pos, exit_code>>
    /\ UNCHANGED fvars

\* a variant of main that also exits with status 1 when there are warnings
ExitFailsOnWarnings ==
    /\ pc = "returned"
    /\ exit_code' = IF ~success \/ warnings # <<>> THEN 1 ELSE 0
    /\ pc' = "exited"
    /\ UNCHANGED <<files, auth_token, find_spec_result, errors, warnings,
                   validated_examples, requests_sent, raised, pos, report, success>>
    /\ UNCHANGED fvars

\* main, after run_validation returned
Exit ==
    /\ pc = "returned"
    /\ exit_code' = IF ~success THEN 1 ELSE IF warnings # <<>> THEN 0 ELSE 0
    /\ pc' = "exited"
    /\ UNCHANGED <<files, auth_token, find_spec_result, errors, warnings,
                   validated_examples, requests_sent, raised, pos, report, success>>
    /\ UNCHANGED fvars

ValidatorNext == FileValidated \/ FileFailed \/ FinishRun \/ Exit

----------------------------------------------------------------------------
(* fix_common_issues.py: the literal texts of its patterns and replacements *)

CurlPost ==
    <<"c", "u", "r", "l", " ", "-", "X", " ", "P", "O", "S", "T">>
DataOpen ==
    <<"-", "d", " ", "'", "{">>
ContentTypeColon ==
    <<"C", "o", "n", "t", "e", "n", "t", "-", "T", "y", "p", "e", ":">>
ContentTypeHeader ==
    <<"-", "H", " ", "\"", "C", "o", "n", "t", "e", "n", "t", "-", "T",
      "y", "p", "e", ":", " ", "a", "p", "p", "l", "i", "c", "a", "t",
      "i", "o", "n", "/", "j", "s", "o", "n", "\"", " ", "\\", "\n", " ",
      " ">>
PythonCodeKey ==
    <<"\"", "p", "y", "t", "h", "o", "n", "_", "c", "o", "d", "e", "\"",
      ":">>
EscapedN ==
    <<"\\", "n">>
EscapedT ==
    <<"\\", "t">>
TemplateN ==
    <<"\\", "\\", "n">>
TemplateT ==
    <<"\\", "\\", "t">>
DoubleEscapedN ==
    <<"\\", "\\", "n">>
EscapedQuote ==
    <<"\\", "\"">>

----------------------------------------------------------------------------
(* fix_common_issues.py: the three rewrites *)

\* index of the last character of  -d '{[^}]*}'  matched at j, else 0
DataMatchEnd(s, j) ==
    IF ~HasAt(s, j, DataOpen) THEN 0
    ELSE LET close == Find(s, <<"}">>, j + Len(DataOpen))
         IN  IF close # 0 /\ close + 1 <= Len(s) /\ s[close + 1] = "'"
             THEN close + 1
             ELSE 0

\* the match of  (curl -X POST[^\\]*?)(-d '{[^}]*}')  starting at i:
\* [d |-> where group 2 starts, e |-> where it ends], d = 0 when there is none
CurlMatch(s, i) ==
    IF ~HasAt(s, i, CurlPost) THEN [d |-> 0, e |-> 0]
    ELSE LET p == i + Len(CurlPost)
             limit == SkipWhile(s, p, Range(s) \ {"\\"})
             starts == {j \in p..(limit - 1) : DataMatchEnd(s, j) # 0}
         IN  IF starts = {} THEN [d |-> 0, e |-> 0]
             ELSE [d |-> Min(starts), e |-> DataMatchEnd(s, Min(starts))]

\* add_content_type
add_content_type(curl_cmd, data_part) ==
    IF Contains(curl_cmd, ContentTypeColon)
    THEN curl_cmd \o data_part
    ELSE curl_cmd \o ContentTypeHeader \o data_part

\* re.sub(pattern, add_content_type, content, flags=re.DOTALL), from index i on
RECURSIVE CurlSub(_, _)
CurlSub(s, i) ==
    LET at == Find(s, CurlPost, i)
    IN  IF i > Len(s) \/ at = 0 THEN Slice(s, i, Len(s))
        ELSE LET m == CurlMatch(s, at)
             IN  IF m.d = 0
                 THEN Slice(s, i, at) \o CurlSub(s, at + 1)
                 ELSE Slice(s, i, at - 1)
                      \o add_content_type(Slice(s, at, m.d - 1), Slice(s, m.d, m.e))
                      \o CurlSub(s, m.e + 1)

fix_curl_headers(content) == CurlSub(content, 1)

\* every occurrence of old in s, left to right and not overlapping, replaced by new
RECURSIVE ReplaceAll(_, _, _)
ReplaceAll(s, old, new) ==
    LET at == Find(s, old, 1)
    IN  IF s = <<>> \/ at = 0 \/ at > Len(s) THEN s
        ELSE Slice(s, 1, at - 1) \o new
             \o ReplaceAll(Slice(s, at + Len(old), Len(s)), old, new)

\* what re.sub makes of a replacement template: a backslash escapes the
\* character after it
RECURSIVE ExpandTemplate(_)
ExpandTemplate(t) ==
    IF t = <<>> THEN <<>>
    ELSE IF t[1] = "\\" /\ Len(t) >= 2
         THEN (IF t[2] = "n" THEN <<"\n">>
               ELSE IF t[2] = "t" THEN <<"\t">>
               ELSE <<t[2]>>)
              \o ExpandTemplate(Slice(t, 3, Len(t)))
         ELSE <<t[1]>> \o ExpandTemplate(Tail(t))

\* fix_json_formatting: re.sub(r'\\n', '\\\\n', content), then the same for t
fix_json_formatting(content) ==
    ReplaceAll(ReplaceAll(content, EscapedN, ExpandTemplate(TemplateN)),
               EscapedT, ExpandTemplate(TemplateT))

\* fix_embedded_python: str.replace twice on group 2
fix_embedded_python(prefix, python_code, suffix) ==
    prefix
    \o ReplaceAll(ReplaceAll(python_code, EscapedN, DoubleEscapedN),
                  <<"\"">>, EscapedQuote)
    \o suffix

\* the match of  ("python_code":\s*")(.*?)(")  starting at i: [q |-> index of
\* the opening quote, c |-> index of the closing quote], q = 0 when none
PythonCodeMatch(s, i) ==
    IF ~HasAt(s, i, PythonCodeKey) THEN [q |-> 0, c |-> 0]
    ELSE LET q == SkipWhile(s, i + Len(PythonCodeKey), RegexSpace)
             c == IF q <= Len(s) /\ s[q] = "\"" THEN Find(s, <<"\"">>, q + 1) ELSE 0
         IN  IF c = 0 \/ c > Len(s) THEN [q |-> 0, c |-> 0] ELSE [q |-> q, c |-> c]

\* re.sub(json_python_pattern, fix_embedded_python, content, flags=re.DOTALL)
RECURSIVE PythonCodeSub(_, _)
PythonCodeSub(s, i) ==
    LET at == Find(s, PythonCodeKey, i)
    IN  IF i > Len(s) \/ at = 0 THEN Slice(s, i, Len(s))
        ELSE LET m == PythonCodeMatch(s, at)
             IN  IF m.q = 0
                 THEN Slice(s, i, at) \o PythonCodeSub(s, at + 1)
                 ELSE Slice(s, i, at - 1)
                      \o fix_embedded_python(Slice(s, at, m.q), Slice(s, m.q + 1, m.c - 1),
                                             Slice(s, m.c, m.c))
                      \o PythonCodeSub(s, m.c + 1)

fix_python_indentation_in_json(content) == PythonCodeSub(content, 1)

\* process_file: the three rewrites, in order
ApplyFixes(original_content) ==
    fix_python_indentation_in_json(fix_json_formatting(fix_curl_headers(original_content)))

----------------------------------------------------------------------------
(* fix_common_issues.py: process_file and main *)

\* how often the fixer is run on the same directory
MaxRuns == 2

WriteOutcomes == {"ok", "open_fails", "write_fails"}

\* a variant of process_file that writes the file back and returns True
\* whether or not the rewrites changed the content
process_file_always_writes(on_disk, read_ok, write) ==
    IF ~read_ok
    THEN [on_disk |-> on_disk, written |-> FALSE, returned |-> FALSE,
          printed |-> "Error processing", failed |-> "read"]
    ELSE IF write = "ok"
         THEN [on_disk |-> ApplyFixes(on_disk), written |-> TRUE, returned |-> TRUE,
               printed |-> "Fixed", failed |-> "none"]
         ELSE [on_disk |-> IF write = "open_fails" THEN on_disk ELSE <<>>,
               written |-> FALSE, returned |-> FALSE,
               printed |-> "Error processing", failed |-> "write"]

\* process_file on a file holding on_disk: what the file holds afterwards,
\* whether f.write(content) was carried out, what the call returns, which line
\* it prints and which of its steps raised.  read_ok: open() and read()
\* succeed; write: how open(file_path, 'w') and write() end, where a failed
\* write leaves the file truncated.
process_file(on_disk, read_ok, write) ==
    IF ~read_ok
    THEN [on_disk |-> on_disk, written |-> FALSE, returned |-> FALSE,
          printed |-> "Error processing", failed |-> "read"]
    ELSE LET original_content == on_disk
             content == ApplyFixes(original_content)
         IN  IF content # original_content
             THEN IF write = "ok"
                  THEN [on_disk |-> content, written |-> TRUE, returned |-> TRUE,
                        printed |-> "Fixed", failed |-> "none"]
                  ELSE [on_disk |-> IF write = "open_fails" THEN on_disk ELSE <<>>,
                        written |-> FALSE, returned |-> FALSE,
                        printed |-> "Error processing", failed |-> "write"]
             ELSE [on_disk |-> on_disk, written |-> FALSE, returned |-> FALSE,
                   printed |-> "No issues", failed |-> "none"]

\* main, one turn of the loop over mdx_files
ProcessFile ==
    /\ fpc = "loop"
    /\ fpos <= Len(disk)
    /\ \E read_ok \in BOOLEAN, write \in WriteOutcomes :
          \E r \in {process_file(disk[fpos], read_ok, write)} :
              /\ disk' = [disk EXCEPT ![fpos] = r.on_disk]
              /\ fixed_count' = IF r.returned THEN fixed_count + 1 ELSE fixed_count
              /\ flog' = Append(flog, [run |-> runs, file |-> fpos, before |-> disk[fpos],
                                       after |-> r.on_disk, written |-> r.written,
                                       returned |-> r.returned, printed |-> r.printed,
                                       failed |-> r.failed])
    /\ fpos' = fpos + 1
    /\ UNCHANGED <<original, fpc, runs, prev_disk>>
    /\ UNCHANGED vvars

\* main after the loop: the count is printed
FixerFinish ==
    /\ fpc = "loop"
    /\ fpos > Len(disk)
    /\ fpc' = "done"
    /\ UNCHANGED <<disk, original, fpos, fixed_count, flog, runs, prev_disk>>
    /\ UNCHANGED vvars

\* the fixer is run again on the files it left
FixerStart ==
    /\ fpc = "done"
    /\ runs < MaxRuns
    /\ runs' = runs + 1
    /\ prev_disk' = disk
    /\ fpos' = 1
    /\ fixed_count' = 0
    /\ flog' = <<>>
    /\ fpc' = "loop"
    /\ UNCHANGED <<disk, original>>
    /\ UNCHANGED vvars

FixerNext == ProcessFile \/ FixerFinish \/ FixerStart

----------------------------------------------------------------------------
(* Initial states *)

ValidatorIdle ==
    /\ files = <<>>
    /\ auth_token = FALSE
    /\ find_spec_result = <<>>
    /\ errors = <<>>
    /\ warnings = <<>>
    /\ validated_examples = <<>>
    /\ requests_sent = <<>>
    /\ raised = <<>>
    /\ pos = 1
    /\ pc = "idle"
    /\ report = NoReport
    /\ success = FALSE
    /\ exit_code = 0

FixerIdle ==
    /\ disk = <<>>
    /\ original = <<>>
    /\ fpos = 1
    /\ fixed_count = 0
    /\ flog = <<>>
    /\ fpc = "idle"
    /\ runs = 0
    /\ prev_disk = <<>>

\* DocumentationValidator.__init__, then the start of run_validation
ValidatorStart ==
    /\ errors = <<>>
    /\ warnings = <<>>
    /\ validated_examples = <<>>
    /\ requests_sent = <<>>
    /\ raised = <<>>
    /\ pos = 1
    /\ pc = "loop"
    /\ report = NoReport
    /\ success = FALSE
    /\ exit_code = 0

\* the fixer's main() up to its loop, over the files given
FixerStartsOn(contents) ==
    /\ disk = contents
    /\ original = contents
    /\ prev_disk = contents
    /\ fpos = 1
    /\ fixed_count = 0
    /\ flog = <<>>
    /\ fpc = "loop"
    /\ runs = 1

\* sorted(mdx_files): the i-th path of the directory
FileNames == <<"a.mdx", "b.mdx", "examples/c.mdx", "examples/d.mdx">>

Prose(text) == [fence |-> FALSE, tag |-> "", body |-> text]
Fence(tag, body) == [fence |-> TRUE, tag |-> tag, body |-> body]

\* a file that cannot be read or decoded, whatever it holds
Unreadable == [readable |-> FALSE, content |-> <<>>]
Readable(content) == [readable |-> TRUE, content |-> content]

\* the files of a directory, in sorted-path order, given what each is
FilesOf(variants) ==
    [i \in 1..Len(variants) |->
        [name |-> FileNames[i], readable |-> variants[i].readable,
         content |-> variants[i].content]]

\* every module name outside common_packages resolves to nothing
NothingInstalled ==
    [m \in {"some_unpublished_pkg_xyz", "lyceum", "_thread", "__future__"} |-> "None"]

----------------------------------------------------------------------------
(* The validator run over a directory of sample documents *)

\* the number of *.mdx files of the directory
MaxFiles == 2

WelcomeText ==
    <<"W", "e", "l", "c", "o", "m", "e", " ", "t", "o", " ", "t", "h",
      "e", " ", "d", "o", "c", "s", ".">>
SeeText ==
    <<"S", "e", "e", " ">>
UnknownThing ==
    <<"u", "n", "k", "n", "o", "w", "n", "/", "t", "h", "i", "n", "g">>
JsonMissingValue ==
    <<"{", "\"", "a", "\"", ":", " ", "}">>
JsonTokenValue ==
    <<"{", "\"", "a", "\"", ":", " ", "<", "T", "O", "K", "E", "N", ">",
      "}">>
JsonTrailingComma ==
    <<"{", "\"", "a", "\"", ":", " ", "1", ",", "}">>
CurlStreamingLines ==
    <<"c", "u", "r", "l", " ", "-", "X", " ", "P", "O", "S", "T", " ",
      "h", "t", "t", "p", "s", ":", "/", "/", "a", "p", "i", ".", "l",
      "y", "c", "e", "u", "m", ".", "t", "e", "c", "h", "n", "o", "l",
      "o", "g", "y", "/", "a", "p", "i", "/", "v", "2", "/", "e", "x",
      "t", "e", "r", "n", "a", "l", "/", "e", "x", "e", "c", "u", "t",
      "i", "o", "n", "/", "s", "t", "r", "e", "a", "m", "i", "n", "g",
      "/", "s", "t", "a", "r", "t", " ", "\\", "\n", " ", " ", "-", "d",
      " ", "'", "{", "\"", "a", "\"", ":", "1", "}", "'">>

ImportNumpy == [stmt |-> "import", names |-> << <<"numpy">> >>]
PlainStatement == [stmt |-> "code", names |-> <<>>]
BadStatement == [stmt |-> "bad", names |-> <<>>]

\* one document per check of validate_file
RunContents ==
    { <<Prose(WelcomeText)>>,
      <<Prose(WelcomeText), Fence("python", <<ImportNumpy, BadStatement>>)>>,
      <<Fence("json", JsonMissingValue)>>,
      <<Fence("json", JsonTokenValue)>>,
      <<Fence("python", <<ImportNumpy, PlainStatement>>), Fence("json", JsonTrailingComma)>>,
      <<Prose(SeeText \o ApiBase \o UnknownThing)>>,
      <<Prose(SeeText \o ApiBase \o Billing \o Credits)>>,
      <<Prose(SeeText \o HttpBin \o Get)>>,
      <<Fence("bash", CurlStreamingLines)>> }

Init ==
    /\ \E variants \in SeqsUpTo({Readable(c) : c \in RunContents} \cup {Unreadable},
                                MaxFiles) :
          files = FilesOf(variants)
    /\ auth_token \in BOOLEAN
    /\ find_spec_result = NothingInstalled
    /\ ValidatorStart
    /\ FixerIdle

Next == ValidatorNext

Spec == Init /\ [][Next]_vars

----------------------------------------------------------------------------
(* The validator run over one document holding one Python block *)

\* the number of statements of the block
MaxStmts == 2

\* the module names outside common_packages that find_spec is asked about
LookedUp == {"some_unpublished_pkg_xyz", "lyceum"}

\* what importlib.util.find_spec(base_package) can do: return a spec, return
\* None (nothing of that name is found), or raise
FindSpecOutcomes == {"spec", "None", "ModuleNotFoundError", "ValueError"}

Statements ==
    { [stmt |-> "import", names |-> << <<"numpy">> >>],
      [stmt |-> "import", names |-> << <<"os", "path">>, <<"json">> >>],
      [stmt |-> "import", names |-> << <<"some_unpublished_pkg_xyz">> >>],
      [stmt |-> "import", names |-> << <<"_thread">> >>],
      [stmt |-> "from", names |-> << <<"lyceum", "client">> >>],
      [stmt |-> "from", names |-> <<>>],
      PlainStatement,
      BadStatement,
      [stmt |-> "shell", names |-> <<>>] }

InitImports ==
    /\ \/ files = FilesOf(<<Unreadable>>)
       \/ \E code \in SeqsUpTo(Statements, MaxStmts) :
             files = FilesOf(<<Readable(<<Fence("python", code)>>)>>)
    /\ auth_token = FALSE
    /\ \E lookup \in [LookedUp -> FindSpecOutcomes] :
          find_spec_result = [m \in DOMAIN lookup \cup UnderscoreModules |->
                                 IF m \in DOMAIN lookup THEN lookup[m] ELSE "spec"]
    /\ ValidatorStart
    /\ FixerIdle

SpecImports == InitImports /\ [][ValidatorNext]_vars

----------------------------------------------------------------------------
(* The validator run over one document holding JSON blocks *)

\* the number of tokens between the key and the closing brace of the block
MaxTokens == 3

JsonObjectOpen ==
    <<"{", "\"", "a", "\"", ":", " ">>

JsonTokens ==
    { <<"1">>, <<",">>, <<"\n">>, <<"[">>, <<"]">>, <<"/", "/">>, TokenUpper }

\* the text of a block: an object with one key and the tokens after it
JsonTextOf(tokens) == JsonObjectOpen \o Concat(tokens) \o <<"}">>

\* a second JSON block of the same document, if there is one
SecondBlocks == {<<>>, <<Fence("json", JsonTokenValue)>>, <<Fence("json", JsonMissingValue)>>}

InitJson ==
    /\ \/ files = FilesOf(<<Unreadable>>)
       \/ \E tokens \in SeqsUpTo(JsonTokens, MaxTokens), second \in SecondBlocks :
             files = FilesOf(<<Readable(<<Fence("json", JsonTextOf(tokens))>> \o second)>>)
    /\ auth_token = FALSE
    /\ find_spec_result = NothingInstalled
    /\ ValidatorStart
    /\ FixerIdle

SpecJson == InitJson /\ [][ValidatorNext]_vars

----------------------------------------------------------------------------
(* The validator run over one document of prose that mentions URLs *)

\* the number of URLs the document mentions
MaxUrls == 2

HttpApiBase ==
    <<"h", "t", "t", "p", ":", "/", "/", "a", "p", "i", ".", "l", "y",
      "c", "e", "u", "m", ".", "t", "e", "c", "h", "n", "o", "l", "o",
      "g", "y", "/", "a", "p", "i", "/", "v", "2", "/", "e", "x", "t",
      "e", "r", "n", "a", "l", "/">>

\* a URL as the prose mentions it: bare, in the parentheses of a link, before
\* a comma
Mentions ==
    { ApiBase \o Storage \o Upload,
      ApiBase \o Storage \o Upload \o <<",">>,
      ApiBase \o Storage \o Upload \o <<"z", "z", "z">>,
      ApiBase \o UnknownThing,
      <<"(">> \o ApiBase \o UnknownThing \o <<")">>,
      ApiBase \o Execution \o Streaming \o SlashStart,
      HttpApiBase \o Storage \o Upload,
      ApiBase \o Billing \o Credits,
      DashboardBase }

\* the prose: the mentions, a space after each, and a closing full stop
RECURSIVE ProseOf(_)
ProseOf(mentions) ==
    IF mentions = <<>> THEN <<".">>
    ELSE IF Len(mentions) = 1 THEN Head(mentions) \o <<".">>
    ELSE Head(mentions) \o <<" ">> \o ProseOf(Tail(mentions))

InitEndpoints ==
    /\ \/ files = FilesOf(<<Unreadable>>)
       \/ \E mentions \in SeqsUpTo(Mentions, MaxUrls) :
             files = FilesOf(<<Readable(<<Prose(SeeText \o ProseOf(mentions))>>)>>)
    /\ auth_token \in BOOLEAN
    /\ find_spec_result = NothingInstalled
    /\ ValidatorStart
    /\ FixerIdle

SpecEndpoints == InitEndpoints /\ [][ValidatorNext]_vars

----------------------------------------------------------------------------
(* The fixer run, and run again, over one document holding a curl command *)

\* the number of -H arguments between the URL and the -d argument
MaxHeaders == 1

RunIntro ==
    <<"R", "u", "n", ":", "\n">>
UrlX ==
    <<"h", "t", "t", "p", "s", ":", "/", "/", "x">>
DashDQuote ==
    <<"-", "d", " ", "'">>
HeaderContentType ==
    <<"-", "H", " ", "\"", "C", "o", "n", "t", "e", "n", "t", "-", "T",
      "y", "p", "e", ":", " ", "a", "p", "p", "l", "i", "c", "a", "t", "i",
      "o", "n", "/", "j", "s", "o", "n", "\"">>
HeaderOther ==
    <<"-", "H", " ", "\"", "A", ":", " ", "b", "\"">>
PayloadPlain ==
    <<"{", "\"", "a", "\"", ":", "1", "}">>
PayloadPython ==
    <<"{", "\"", "p", "y", "t", "h", "o", "n", "_", "c", "o", "d", "e",
      "\"", ":", " ", "\"", "a", "\\", "n", "b", "\"", "}">>
PayloadNested ==
    <<"{", "\"", "a", "\"", ":", " ", "{", "\"", "b", "\"", ":", "1", "}",
      "}">>

\* what separates the arguments: a space, or a backslash continuation
SepSpace == <<" ">>
SepContinuation == <<" ", "\\", "\n", " ", " ">>

\* a command is [intro, sep, headers, payload]; its text in the document
RenderCommand(cmd) ==
    cmd.intro \o CurlPost \o <<" ">> \o UrlX \o cmd.sep
    \o Concat([k \in 1..Len(cmd.headers) |-> cmd.headers[k] \o cmd.sep])
    \o DashDQuote \o cmd.payload \o <<"'">>

Commands ==
    [intro : {<<>>, RunIntro},
     sep : {SepSpace, SepContinuation},
     headers : SeqsUpTo({HeaderContentType, HeaderOther}, MaxHeaders),
     payload : {PayloadPlain, PayloadPython, PayloadNested}]

InitRewrite ==
    /\ \E cmd \in Commands : FixerStartsOn(<<RenderCommand(cmd)>>)
    /\ ValidatorIdle

SpecRewrite == InitRewrite /\ [][FixerNext]_vars

----------------------------------------------------------------------------
(* The fixer run over a directory of sample documents *)

FixerContents ==
    { WelcomeText,
      RenderCommand([intro |-> <<>>, sep |-> SepSpace, headers |-> <<>>,
                     payload |-> PayloadPlain]),
      RenderCommand([intro |-> <<>>, sep |-> SepSpace, headers |-> <<HeaderContentType>>,
                     payload |-> PayloadPython]) }

InitFixer ==
    /\ \E contents \in SeqsUpTo(FixerContents, MaxFiles) : FixerStartsOn(contents)
    /\ ValidatorIdle

SpecFixer == InitFixer /\ [][FixerNext]_vars

----------------------------------------------------------------------------
(* The validator run over a document of prose, alone or after another file *)

\* the number of paragraphs of the document
MaxParagraphs == 2

CurlInProse ==
    CurlPost \o <<" ">> \o ApiDomain \o <<" ">> \o DashDQuote \o JsonMissingValue \o <<"'">>
ImportInProse ==
    <<"i", "m", "p", "o", "r", "t", " ", "(">>
SchemeOnly ==
    <<"h", "t", "t", "p", ":", "/", "/", "a">>

\* what a paragraph may hold: plain words, a command line, JSON that does not
\* parse, a line that is no Python, a scheme with too little after it to be a
\* URL, a URL that is fetched, a URL of the API that matches no known shape
Paragraphs ==
    { WelcomeText,
      CurlInProse,
      JsonMissingValue,
      ImportInProse,
      SchemeOnly,
      SeeText \o HttpBin \o Get,
      SeeText \o ApiBase \o UnknownThing }

\* the document: its paragraphs, one per line; no paragraph is an empty file
ProseDocument(paragraphs) ==
    IF paragraphs = <<>> THEN <<>> ELSE <<Prose(JoinLines(paragraphs))>>

\* the file validated before the document, if there is one
FilesBefore ==
    { <<>>, <<Unreadable>>, <<Readable(<<Fence("json", JsonMissingValue)>>)>> }

InitProse ==
    /\ \E paragraphs \in SeqsUpTo(Paragraphs, MaxParagraphs), before \in FilesBefore :
          files = FilesOf(before \o <<Readable(ProseDocument(paragraphs))>>)
    /\ auth_token \in BOOLEAN
    /\ find_spec_result = NothingInstalled
    /\ ValidatorStart
    /\ FixerIdle

SpecProse == InitProse /\ [][ValidatorNext]_vars

----------------------------------------------------------------------------
(* The validator run over one document holding a shell block of commands *)

HeaderBearerPlaceholder ==
    <<"-", "H", " ", "\"", "A", "u", "t", "h", "o", "r", "i", "z", "a", "t",
      "i", "o", "n", ":", " ", "B", "e", "a", "r", "e", "r", " ", "<", "T",
      "O", "K", "E", "N", ">", "\"">>
HeaderBearerValue ==
    <<"-", "H", " ", "\"", "A", "u", "t", "h", "o", "r", "i", "z", "a", "t",
      "i", "o", "n", ":", " ", "B", "e", "a", "r", "e", "r", " ", "a", "b",
      "c", "\"">>
HeaderBasic ==
    <<"-", "H", " ", "\"", "A", "u", "t", "h", "o", "r", "i", "z", "a", "t",
      "i", "o", "n", ":", " ", "B", "a", "s", "i", "c", " ", "x", "\"">>
HeaderLowerCase ==
    <<"-", "H", " ", "\"", "a", "u", "t", "h", "o", "r", "i", "z", "a", "t",
      "i", "o", "n", ":", " ", "b", "e", "a", "r", "e", "r", " ", "<", "t",
      "o", "k", "e", "n", ">", "\"">>
HeaderTextPlain ==
    <<"-", "H", " ", "\"", "C", "o", "n", "t", "e", "n", "t", "-", "T", "y",
      "p", "e", ":", " ", "t", "e", "x", "t", "/", "p", "l", "a", "i", "n",
      "\"">>
DataShort ==
    <<"-", "d", " ", "'", "{", "\"", "a", "\"", ":", "1", "}", "'">>
DataLong ==
    <<"-", "-", "d", "a", "t", "a", " ", "x">>
DataAttached ==
    <<"-", "d", "'", "{", "\"", "a", "\"", ":", "1", "}", "'">>
CurlOther ==
    <<"c", "u", "r", "l", " ", "h", "t", "t", "p", "s", ":", "/", "/", "x">>

\* the arguments of a command, separated by sep
RECURSIVE JoinWith(_, _)
JoinWith(ls, sep) ==
    IF ls = <<>> THEN <<>>
    ELSE IF Len(ls) = 1 THEN ls[1]
    ELSE ls[1] \o sep \o JoinWith(Tail(ls), sep)

\* a command is [url, sep, headers, data]: where it goes, what separates its
\* arguments, its -H arguments and its data argument (none when empty)
CurlArguments ==
    [url : {ApiBase \o Storage \o Upload, ApiDomain \o <<"/", "x">>, UrlX},
     sep : {SepSpace, SepContinuation},
     headers : SeqsUpTo({HeaderBearerPlaceholder, HeaderBearerValue, HeaderBasic,
                         HeaderLowerCase, HeaderContentType, HeaderTextPlain},
                        MaxHeaders),
     data : {<<>>, DataShort, DataLong, DataAttached}]

CurlText(cmd) ==
    JoinWith(<<CurlPost \o <<" ">> \o cmd.url>> \o cmd.headers
             \o (IF cmd.data = <<>> THEN <<>> ELSE <<cmd.data>>),
             cmd.sep)

\* the block holds the command alone, twice, or before another command
AfterCommand(text) == {<<>>, <<"\n">> \o text, <<"\n">> \o CurlOther}

InitCurl ==
    /\ \/ files = FilesOf(<<Unreadable>>)
       \/ \E cmd \in CurlArguments :
             \E rest \in AfterCommand(CurlText(cmd)) :
                 files = FilesOf(<<Readable(<<Fence("bash", CurlText(cmd) \o rest)>>)>>)
    /\ auth_token = FALSE
    /\ find_spec_result = NothingInstalled
    /\ ValidatorStart
    /\ FixerIdle

SpecCurl == InitCurl /\ [][ValidatorNext]_vars

----------------------------------------------------------------------------
(* The validator run over one document holding a block of lines *)

\* the number of lines of the block
MaxLines == 3

LineCurlContinued ==
    <<"c", "u", "r", "l", " ", "-", "X", " ", "P", "O", "S", "T", " ", "h",
      "t", "t", "p", "s", ":", "/", "/", "x", " ", "\\">>
LineHeaderIndented ==
    <<" ", " ", "-", "H", " ", "\"", "A", ":", " ", "b", "\"">>
LineQuoted ==
    <<"\"", "q", "\"">>
LineBackslash ==
    <<"x", " ", "\\">>
LineEcho ==
    <<"e", "c", "h", "o", " ", "h", "i">>
LineCurling ==
    <<" ", " ", "c", "u", "r", "l", "i", "n", "g">>

\* what a line of the block may be: the start of a command, with or without
\* a continuation mark, an indented argument, a quoted argument, a line ending
\* in a backslash, a blank line, another command, a word that starts with curl
BlockLines ==
    { CurlOther, LineCurlContinued, LineHeaderIndented, LineQuoted, LineBackslash,
      <<>>, LineEcho, LineCurling }

\* the block's tag: a shell-like one, and one that is not
LineBlockTags == {"curl", "text"}

\* a shell block that ends in an open command, before the block of lines
BlocksBefore == {<<>>, <<Fence("shell", LineCurlContinued)>>}

InitLines ==
    /\ \/ files = FilesOf(<<Unreadable>>)
       \/ \E lines \in SeqsUpTo(BlockLines, MaxLines), tag \in LineBlockTags,
               before \in BlocksBefore :
             files = FilesOf(<<Readable(before \o <<Fence(tag, JoinLines(lines))>>)>>)
    /\ auth_token = FALSE
    /\ find_spec_result = NothingInstalled
    /\ ValidatorStart
    /\ FixerIdle

SpecLines == InitLines /\ [][ValidatorNext]_vars

----------------------------------------------------------------------------
(* The validator run over one document holding a JSON block with a string *)

\* the number of pieces of the string value
MaxPieces == 3

JsonStringOpen ==
    <<"{", "\"", "u", "\"", ":", " ", "\"">>
JsonStringClose ==
    <<"\"", "}">>

\* what the string value is made of: a letter, a slash, two slashes, a comma,
\* a closing brace, a closing bracket, a space, an escaped quote, a lone
\* backslash (no JSON), a placeholder
StringPieces ==
    { <<"a">>, <<"/">>, <<"/", "/">>, <<",">>, <<"}">>, <<"]">>, <<" ">>,
      <<"\\", "\"">>, <<"\\">>, TokenUpper }

InitStrings ==
    /\ \/ files = FilesOf(<<Unreadable>>)
       \/ \E pieces \in SeqsUpTo(StringPieces, MaxPieces) :
             files = FilesOf(<<Readable(<<Fence("json",
                         JsonStringOpen \o Concat(pieces) \o JsonStringClose)>>)>>)
    /\ auth_token = FALSE
    /\ find_spec_result = NothingInstalled
    /\ ValidatorStart
    /\ FixerIdle

SpecStrings == InitStrings /\ [][ValidatorNext]_vars

----------------------------------------------------------------------------
(* Claims *)

ErrorsOfKind(kind, file) ==
    {k \in 1..Len(errors) : errors[k].kind = kind /\ errors[k].file = file}
WarningsOfKind(kind, file) ==
    {k \in 1..Len(warnings) : warnings[k].kind = kind /\ warnings[k].file = file}

\* C1: the run reports failure (run_validation returns False, exit code 1)
\* exactly when the error list is not empty; warnings alone leave the exit
\* code at 0.
C1_FailureIffErrors ==
    /\ pc \in {"returned", "exited"} => (success = FALSE <=> Len(errors) > 0)
    /\ pc = "exited" => (exit_code = 1 <=> Len(errors) > 0)
    /\ pc = "exited" /\ Len(errors) = 0 => exit_code = 0

C1_Witness ==
    /\ pc = "exited"
    /\ Len(warnings) > 0
    /\ Len(errors) = 0
    /\ exit_code = 0

\* the names of the files among the first n whose validation did not raise
RECURSIVE NamesNotRaised(_)
NamesNotRaised(n) ==
    IF n = 0 THEN <<>>
    ELSE NamesNotRaised(n - 1) \o (IF raised[n] THEN <<>> ELSE <<files[n].name>>)

\* C9: when validate_file raises for a file, exactly one error entry names
\* that file as failed, every other file is still validated, in order, the
\* report is written, and the run ends as failed.
C9_FileExceptionCaught ==
    /\ \A i \in 1..Len(raised) :
          raised[i] => Cardinality(ErrorsOfKind("Failed to validate", files[i].name)) = 1
    /\ [k \in 1..Len(validated_examples) |-> validated_examples[k].file]
          = NamesNotRaised(Len(raised))
    /\ pc \in {"returned", "exited"} =>
          /\ Len(raised) = Len(files)
          /\ report # NoReport
          /\ (\E i \in 1..Len(raised) : raised[i]) =>
                success = FALSE /\ report.total_errors >= 1
    /\ pc = "exited" /\ (\E i \in 1..Len(raised) : raised[i]) => exit_code = 1

C9_Witness ==
    /\ pc = "exited"
    /\ Len(files) >= 2
    /\ raised[1]
    /\ ~raised[2]
    /\ Len(validated_examples) = 1
    /\ report # NoReport
    /\ exit_code = 1

----------------------------------------------------------------------------
(* Claims about the import check *)

\* the Python block of a file that holds exactly one, a parsing one
ParsingBlockOf(file) ==
    /\ file.readable
    /\ Len(file.content) = 1
    /\ file.content[1].fence
    /\ file.content[1].tag = "python"
    /\ file.content[1].body # <<>>
    /\ \A k \in 1..Len(file.content[1].body) :
          file.content[1].body[k].stmt \in {"import", "from", "code"}

\* the dotted names the statements of a block import, in order
ImportedNames(code) ==
    Concat([k \in 1..Len(code) |-> code[k].names])

\* C2: for a Python block that parses, the import check records no warning
\* when every imported top-level module is in the allow-list, and exactly one
\* warning naming the import when the block imports a top-level module that
\* is neither in the allow-list nor found by the module lookup.
C2_ImportWarnings ==
    \A i \in 1..Len(raised) :
        ParsingBlockOf(files[i]) =>
            LET imported == ImportedNames(files[i].content[1].body)
                given == WarningsOfKind("Potentially unavailable imports", files[i].name)
                unavailable ==
                    {k \in 1..Len(imported) :
                        /\ imported[k][1] \notin common_packages
                        /\ find_spec_result[imported[k][1]] # "spec"}
            IN  /\ unavailable = {} => given = {}
                /\ unavailable # {} =>
                      /\ Cardinality(given) = 1
                      /\ \A w \in given : \A k \in unavailable :
                            imported[k] \in Range(warnings[w].detail)

----------------------------------------------------------------------------
(* Claims about the JSON check *)

\* the texts of the JSON-tagged blocks of a file, in order
JsonBlocksOf(file) ==
    LET blocks == SelectSeq(extract_code_blocks(file.content),
                            LAMBDA b : b.language = "json")
    IN  [k \in 1..Len(blocks) |-> blocks[k].code]

\* the entries the JSON check records for a file
JsonEntries(file) ==
    ErrorsOfKind("Invalid JSON in code block", file.name)
    \cup WarningsOfKind("Template JSON with placeholders", file.name)

\* the text is no JSON, and is JSON once every comma that optional whitespace
\* (line breaks included) and a closing brace or bracket follow is taken out
OnlyTrailingCommas(code) ==
    /\ ~json_loads(code)
    /\ json_loads(StripTrailingCommas(code))

\* C5: for a JSON block whose only defect is trailing commas (a comma, then
\* optional whitespace that may include a line break, then a closing brace or
\* bracket), the JSON check records neither an error nor a warning.
C5_TrailingCommasAccepted ==
    \A i \in 1..Len(raised) :
        (~raised[i] /\ \A code \in Range(JsonBlocksOf(files[i])) : OnlyTrailingCommas(code))
            => JsonEntries(files[i]) = {}

\* the blocks of a file that fail to parse after cleaning, with (template) or
\* without a placeholder token in their original text
FailingBlocks(file, template) ==
    LET codes == JsonBlocksOf(file)
    IN  {k \in 1..Len(codes) :
            /\ ~json_loads(clean_json_code(codes[k]))
            /\ is_template_json(codes[k]) = template}

\* C6: a JSON block that still fails to parse after cleaning is recorded as a
\* warning and not as an error when its original text holds a placeholder
\* token, and as an error and not as a warning when it holds none (once per
\* JSON block of the document, the check being run once per block); template
\* blocks alone leave the run successful.
C6_TemplateIsWarning ==
    /\ \A i \in 1..Len(raised) :
          ~raised[i] =>
              /\ Cardinality(ErrorsOfKind("Invalid JSON in code block", files[i].name))
                    = Len(JsonBlocksOf(files[i])) * Cardinality(FailingBlocks(files[i], FALSE))
              /\ Cardinality(WarningsOfKind("Template JSON with placeholders", files[i].name))
                    = Len(JsonBlocksOf(files[i])) * Cardinality(FailingBlocks(files[i], TRUE))
    /\ (/\ pc = "exited"
        /\ \A i \in 1..Len(files) : ~raised[i] /\ FailingBlocks(files[i], FALSE) = {})
           => errors = <<>> /\ success = TRUE /\ exit_code = 0

C6_Witness ==
    /\ pc = "exited"
    /\ Len(files) = 1
    /\ FailingBlocks(files[1], TRUE) # {}
    /\ FailingBlocks(files[1], FALSE) = {}
    /\ WarningsOfKind("Template JSON with placeholders", files[1].name) # {}
    /\ errors = <<>>
    /\ exit_code = 0

----------------------------------------------------------------------------
(* Claims about the endpoint checks *)

\* the requests made to the tested endpoints of the target API
LyceumRequests ==
    {k \in 1..Len(requests_sent) : requests_sent[k].url \in Range(lyceum_test_endpoints)}

\* C7: with a token, when one tested endpoint of the target API is probed, an
\* error is recorded exactly when the response status is 401 (one error, of
\* authentication failure, and the run is unsuccessful); every other outcome
\* records no error and validate_file does not raise.
C7_OnlyUnauthorizedIsError ==
    (/\ pc = "exited"
     /\ auth_token
     /\ Len(files) = 1
     /\ files[1].readable
     /\ Len(requests_sent) = 1
     /\ LyceumRequests = {1})
        => LET resp == requests_sent[1].response
           IN  IF resp.kind = "response" /\ resp.status = 401
               THEN /\ Len(errors) = 1
                    /\ errors[1].kind = "Authentication failed"
                    /\ success = FALSE
               ELSE /\ errors = <<>>
                    /\ ~raised[1]
                    /\ success = TRUE

\* the URLs of a file under the target API domain, cleaned, in order
ApiUrlsOf(file) ==
    LET urls == UrlsOf(file.content)
        cleaned == [k \in 1..Len(urls) |-> CleanUrl(urls[k])]
    IN  SelectSeq(cleaned, LAMBDA url : Contains(url, ApiDomain))

KnownShape(url) ==
    \E k \in 1..Len(expected_patterns) : ReMatch(expected_patterns[k], url)

\* the warnings of a file about the shape of the URL given
ShapeWarnings(file, url) ==
    {w \in WarningsOfKind("Unrecognized Lyceum endpoint pattern", file.name) :
        warnings[w].detail = url}

\* C8: each occurrence of a URL under the target API domain gives no warning
\* when the URL has a known path shape (such as .../storage/upload) and
\* exactly one "Unrecognized Lyceum endpoint pattern" warning when it has none
\* (such as .../unknown/thing); the shape check records no error and leaves
\* the run successful.
C8_UnknownShapeWarns ==
    /\ \A i \in 1..Len(raised) :
          ~raised[i] =>
              \A urls \in {ApiUrlsOf(files[i])} :
                  /\ \A url \in Range(urls) :
                        Cardinality(ShapeWarnings(files[i], url))
                            = IF KnownShape(url) THEN 0
                              ELSE Cardinality({k \in 1..Len(urls) : urls[k] = url})
                  /\ Cardinality(WarningsOfKind("Unrecognized Lyceum endpoint pattern",
                                                files[i].name))
                        = Cardinality({k \in 1..Len(urls) : ~KnownShape(urls[k])})
                  /\ ShapeWarnings(files[i], ApiBase \o Storage \o Upload) = {}
                  /\ Cardinality(ShapeWarnings(files[i], ApiBase \o UnknownThing))
                        = Cardinality({k \in 1..Len(urls) : urls[k] = ApiBase \o UnknownThing})
    /\ \A e \in Range(errors) : e.kind \in {"Authentication failed", "Failed to validate"}
    /\ (pc = "exited" /\ requests_sent = <<>> /\ \A i \in 1..Len(raised) : ~raised[i])
          => errors = <<>> /\ success = TRUE /\ exit_code = 0

C8_Witness ==
    /\ pc = "exited"
    /\ Len(files) = 1
    /\ ~raised[1]
    /\ Len(ApiUrlsOf(files[1])) = 2
    /\ ApiUrlsOf(files[1])[1] = ApiBase \o UnknownThing
    /\ ApiUrlsOf(files[1])[2] = ApiBase \o Storage \o Upload
    /\ Len(warnings) = 1
    /\ warnings[1].kind = "Unrecognized Lyceum endpoint pattern"
    /\ warnings[1].detail = ApiBase \o UnknownThing
    /\ errors = <<>>
    /\ success = TRUE

----------------------------------------------------------------------------
(* Claims about the fixer *)

\* the document holds a curl -X POST command with a one-line -d '{...}'
\* argument and no Content-Type header
LacksContentType(doc) ==
    /\ Contains(doc, CurlPost)
    /\ Contains(doc, DataOpen)
    /\ ~Contains(doc, ContentTypeColon)

\* C3: for a document holding a curl -X POST command with a one-line JSON
\* data argument and no Content-Type header, applying the three rewrites
\* twice gives what applying them once gives, so a run of the fixer over its
\* own output does not write the file.
C3_FixerIdempotent ==
    \A k \in 1..Len(flog) :
        LET first == original[flog[k].file]
            once == ApplyFixes(first)
        IN  LacksContentType(first) =>
                /\ ApplyFixes(once) = once
                /\ (flog[k].before = once /\ flog[k].failed # "read") =>
                      ~flog[k].written /\ flog[k].printed = "No issues"

\* the document holds one curl -X POST command whose -d '{...}' argument has
\* no closing brace inside
OneCommandNoInnerBrace(doc) ==
    LET c == Find(doc, CurlPost, 1)
        d == Find(doc, DataOpen, 1)
        close == Find(doc, <<"}">>, d)
    IN  /\ c # 0
        /\ d > c
        /\ close # 0
        /\ close + 1 = Len(doc)
        /\ doc[close + 1] = "'"

\* the document with the Content-Type header and a continuation put right
\* before the -d argument, unless the command text before -d mentions one
WithHeaderBeforeData(doc) ==
    LET c == Find(doc, CurlPost, 1)
        d == Find(doc, DataOpen, 1)
    IN  IF Contains(Slice(doc, c, d - 1), ContentTypeColon) THEN doc
        ELSE Slice(doc, 1, d - 1)
             \o HeaderContentType \o <<" ", "\\", "\n", " ", " ">>
             \o Slice(doc, d, Len(doc))

\* C4: for a curl -X POST command with a one-line -d '{...}' argument without
\* an inner closing brace, fix_curl_headers puts the Content-Type header and a
\* backslash-newline right before -d when the text before -d has no
\* Content-Type:, and leaves the command unchanged when it has; on one line
\* or split over lines with backslash continuations.
C4_HeaderInserted ==
    \A k \in 1..Len(flog) :
        LET doc == original[flog[k].file]
        IN  OneCommandNoInnerBrace(doc) => fix_curl_headers(doc) = WithHeaderBeforeData(doc)

\* the entries of the log for which process_file returned True
Counted == {k \in 1..Len(flog) : flog[k].returned}

\* C10: a file is overwritten exactly when the three rewrites change its
\* content, and counted as fixed exactly when it was overwritten; a file whose
\* read or write fails is not counted, and the files after it are processed.
C10_CountsOverwrites ==
    /\ \A k \in 1..Len(flog) :
          LET e == flog[k]
              changed == ApplyFixes(e.before) # e.before
          IN  /\ e.file = k
              /\ e.failed = "none" =>
                    /\ e.written <=> changed
                    /\ e.written => e.after = ApplyFixes(e.before)
                    /\ ~e.written => e.after = e.before
                    /\ e.returned <=> e.written
              /\ e.failed # "none" => ~e.returned /\ ~e.written
    /\ fixed_count = Cardinality(Counted)
    /\ Len(flog) = fpos - 1
    /\ fpc = "done" => Len(flog) = Len(disk)

C10_Witness ==
    /\ fpc = "done"
    /\ Len(flog) = 2
    /\ flog[1].failed = "write"
    /\ flog[2].written
    /\ flog[2].after # flog[2].before
    /\ fixed_count = 1

----------------------------------------------------------------------------
(* Claims about documents of prose *)

\* the file can be read and its document holds no fence and no URL
ProseOnly(file) ==
    /\ file.readable
    /\ \A k \in 1..Len(file.content) : ~file.content[k].fence
    /\ UrlsOf(file.content) = <<>>

\* the counts validate_file returns for a document in which it finds nothing
NothingFound(filename) ==
    [file |-> filename, python_blocks |-> 0, json_blocks |-> 0, curl_commands |-> 0,
     api_endpoints |-> 0, errors |-> 0, warnings |-> 0]

\* what a report shows of a file: its section and the entries that name it
ShownOf(rep, filename) ==
    [sections |-> {k \in DOMAIN rep.file_results : rep.file_results[k].file = filename},
     errors |-> {k \in DOMAIN rep.errors : rep.errors[k].file = filename},
     warnings |-> {k \in DOMAIN rep.warnings : rep.warnings[k].file = filename}]

\* C11: validating a document with no fenced code block and no URL appends
\* nothing to the error list and to the warning list and makes no network
\* request, and the report shows for that file zero Python blocks, JSON blocks
\* and curl commands, no error and no warning (zero errors and zero warnings
\* in all when every file of the run is such a document).
C11_ProseOnlyIsClean ==
    [][/\ (pc = "loop" /\ pos <= Len(files) /\ ProseOnly(files[pos])) =>
              /\ errors' = errors
              /\ warnings' = warnings
              /\ requests_sent' = requests_sent
              /\ validated_examples'
                    = Append(validated_examples, NothingFound(files[pos].name))
       /\ (pc = "loop" /\ pc' = "returned") =>
              /\ \A i \in 1..Len(files) :
                    ProseOnly(files[i]) =>
                        \E shown \in {ShownOf(report', files[i].name)} :
                            /\ Cardinality(shown.sections) = 1
                            /\ \A k \in shown.sections :
                                  /\ report'.file_results[k].python_blocks = 0
                                  /\ report'.file_results[k].json_blocks = 0
                                  /\ report'.file_results[k].curl_commands = 0
                            /\ shown.errors = {}
                            /\ shown.warnings = {}
              /\ (\A i \in 1..Len(files) : ProseOnly(files[i])) =>
                    /\ report'.total_errors = 0
                    /\ report'.total_warnings = 0
                    /\ report'.all_passed
      ]_vars

\* a run that failed on its first file and then validated a document of prose
\* holding a command line outside any fence
C11_Witness ==
    /\ pc = "exited"
    /\ Len(files) = 2
    /\ ~ProseOnly(files[1])
    /\ ProseOnly(files[2])
    /\ Len(files[2].content) = 1
    /\ Contains(files[2].content[1].body, Curl)
    /\ Contains(files[2].content[1].body, SchemeOnly)
    /\ errors # <<>>
    /\ validated_examples[Len(validated_examples)] = NothingFound(files[2].name)
    /\ ShownOf(report, files[2].name).errors = {}

----------------------------------------------------------------------------
(* Claims about the curl checks *)

CurlWarningKinds ==
    {"Lyceum API call missing Authorization header",
     "JSON POST request missing Content-Type header",
     "API call might contain real token instead of placeholder"}

\* whether the claim expects a warning of the kind for the command
ExpectsCurlWarning(kind, command) ==
    /\ Contains(command, ApiDomain)
    /\ CASE kind = "Lyceum API call missing Authorization header" ->
               ~Contains(command, AuthorizationBearer)
         [] kind = "JSON POST request missing Content-Type header" ->
               Contains(command, DashD) /\ ~Contains(command, ContentTypeJson)
         [] kind = "API call might contain real token instead of placeholder" ->
               /\ Contains(command, AuthorizationColon)
               /\ ~Contains(command, TokenUpper)
               /\ ~Contains(command, TokenLower)
               /\ ~Contains(command, BearerOpen)

\* C12: for every extracted curl command, the curl check records no warning
\* when the command does not name the API domain; when it does, it records a
\* missing-Authorization warning exactly when the command lacks
\* "Authorization: Bearer", a missing-Content-Type warning exactly when it
\* holds "-d " and lacks "Content-Type: application/json", and a
\* possible-real-token warning exactly when it holds "Authorization:" and
\* none of the placeholder forms; the check never records an error (a file
\* of prose and shell blocks, validated without a token, has no error).
C12_CurlWarnings ==
    \A i \in 1..Len(raised) :
        ~raised[i] =>
            \A commands \in {extract_curl_commands(files[i].content)} :
                /\ \A kind \in CurlWarningKinds :
                      /\ ErrorsOfKind(kind, files[i].name) = {}
                      /\ \A c \in Range(commands) :
                            Cardinality({w \in WarningsOfKind(kind, files[i].name) :
                                            warnings[w].detail = c})
                               = Cardinality({k \in 1..Len(commands) :
                                                 /\ commands[k] = c
                                                 /\ ExpectsCurlWarning(kind, c)})
                      /\ Cardinality(WarningsOfKind(kind, files[i].name))
                            = Cardinality({k \in 1..Len(commands) :
                                              ExpectsCurlWarning(kind, commands[k])})
                /\ (/\ ~auth_token
                    /\ \A k \in 1..Len(files[i].content) :
                          files[i].content[k].fence
                              => files[i].content[k].tag \in ShellLanguages)
                      => \A e \in 1..Len(errors) : errors[e].file # files[i].name

\* a command to the API, given twice, with a header that is no bearer token
\* and data without a JSON content type: three warnings for each
C12_Witness ==
    /\ pc = "exited"
    /\ Len(files) = 1
    /\ ~raised[1]
    /\ \E commands \in {extract_curl_commands(files[1].content)} :
          /\ Len(commands) = 2
          /\ commands[1] = commands[2]
          /\ \A kind \in CurlWarningKinds :
                /\ ExpectsCurlWarning(kind, commands[1])
                /\ Cardinality(WarningsOfKind(kind, files[1].name)) = 2
    /\ errors = <<>>

----------------------------------------------------------------------------
(* Claims about the extraction of curl commands *)

\* the lines of each shell-tagged block of a document, block by block, each
\* line without the whitespace around it
ShellBlockLines(content) ==
    LET shell == SelectSeq(content, LAMBDA part : part.fence /\ part.tag \in ShellLanguages)
    IN  [b \in 1..Len(shell) |->
            LET lines == SplitLines(shell[b].body)
            IN  [k \in 1..Len(lines) |-> Strip(lines[k])]]

BeginsCommand(line) == HasAt(line, 1, Curl)

\* a line that goes on with the command before it
ContinuesCommand(line) ==
    /\ ~BeginsCommand(line)
    /\ \/ HasAt(line, 1, Dash)
       \/ HasAt(line, 1, DoubleQuote)
       \/ Contains(line, Backslash)

\* the last line of the maximal run of continuing lines after line i
RunEnd(lines, i) ==
    CHOOSE j \in i..Len(lines) :
        /\ \A m \in (i + 1)..j : ContinuesCommand(lines[m])
        /\ j < Len(lines) => ~ContinuesCommand(lines[j + 1])

\* the span of lines [first, last] of each command of a block, in order
CommandSpans(lines) ==
    LET begins == {i \in 1..Len(lines) : BeginsCommand(lines[i])}
    IN  [k \in 1..Cardinality(begins) |->
            LET first == CHOOSE i \in begins : Cardinality({j \in begins : j < i}) = k - 1
            IN  [first |-> first, last |-> RunEnd(lines, first)]]

\* the commands the claim describes for the blocks of a document, given the
\* lines of each
DescribedCommands(blocks) ==
    Concat([b \in DOMAIN blocks |->
               [k \in DOMAIN CommandSpans(blocks[b]) |->
                   JoinSpaces(SubSeq(blocks[b], CommandSpans(blocks[b])[k].first,
                                     CommandSpans(blocks[b])[k].last))]])

\* C13: in a block tagged bash, shell or curl, extract_curl_commands emits one
\* command per line that begins with curl, in document order; the command is
\* that line and the maximal run of lines right after it that begin no
\* command and start with a dash, start with a double quote or hold a
\* backslash; the line that ends the run and the lines after it up to the
\* next curl line are in no command, and no line is in two commands.  The
\* count validate_file returns is the number of these commands.
C13_OneCommandPerCurlLine ==
    \A i \in 1..Len(files) :
        files[i].readable =>
            \A blocks \in {ShellBlockLines(files[i].content)} :
                \A described \in {DescribedCommands(blocks)} :
                    /\ extract_curl_commands(files[i].content) = described
                    /\ \A b \in DOMAIN blocks :
                          \A spans \in {CommandSpans(blocks[b])} :
                              \A k \in 1..(Len(spans) - 1) :
                                  spans[k].last < spans[k + 1].first
                    /\ \A r \in Range(validated_examples) :
                          r.file = files[i].name => r.curl_commands = Len(described)

\* a block holding a command of two lines and the line that ends it,
\* validated: one command counted
C13_Witness ==
    /\ pc = "exited"
    /\ Len(files) = 1
    /\ files[1].readable
    /\ \E blocks \in {ShellBlockLines(files[1].content)} :
          /\ Len(blocks) = 1
          /\ Len(blocks[1]) = 3
          /\ CommandSpans(blocks[1]) = <<[first |-> 1, last |-> 2]>>
          /\ blocks[1][3] # <<>>
    /\ Len(validated_examples) = 1
    /\ validated_examples[1].curl_commands = 1

----------------------------------------------------------------------------
(* Claims about the number of entries per block *)

\* the Python-tagged blocks of a file that fail to parse
FailingPythonBlocks(file) ==
    LET blocks == extract_code_blocks(file.content)
    IN  {k \in 1..Len(blocks) :
            /\ blocks[k].language = "python"
            /\ ast_parse(clean_python_code(blocks[k].code)) # "ok"}

\* the error entries that name a file
ErrorsOf(file) == {k \in 1..Len(errors) : errors[k].file = file.name}

\* C14: each code block that fails its check contributes exactly one entry to
\* the error list: for a file validated without a token, the number of error
\* entries recorded for the file is the number of its Python-tagged blocks
\* that fail to parse plus the number of its JSON-tagged blocks that fail to
\* parse and hold no placeholder token, whatever other blocks it holds.
C14_OneErrorPerFailingBlock ==
    \A i \in 1..Len(raised) :
        (~raised[i] /\ ~auth_token) =>
            Cardinality(ErrorsOf(files[i]))
                = Cardinality(FailingPythonBlocks(files[i]))
                  + Cardinality(FailingBlocks(files[i], FALSE))

----------------------------------------------------------------------------
(* Claims about the cleaning of valid JSON *)

\* C15: for a JSON-tagged block whose body is valid JSON, whatever its string
\* values hold, the cleaning done before parsing does not make it
\* unparseable: the JSON check records neither an error nor a warning for a
\* file whose JSON blocks are all valid JSON.
C15_ValidJsonStaysValid ==
    \A i \in 1..Len(raised) :
        (~raised[i] /\ \A code \in Range(JsonBlocksOf(files[i])) : json_loads(code))
            => JsonEntries(files[i]) = {}
====
